---- MODULE Spec2Model ----
(***************************************************************************)
(* A model of hushpong's PNG chunk codec and chunk container:              *)
(*   src/src/chunk_type.rs  ChunkType      (4-byte type code)              *)
(*   src/src/crc32.rs       CRC-32 (ISO-HDLC), table driven                *)
(*   src/src/chunk.rs       Chunk          (new, as_bytes, try_from)       *)
(*   src/src/png.rs         Png            (from_chunks, try_from,         *)
(*                                          search/append/remove_chunk)    *)
(*                                                                         *)
(* Representation.  A byte is a number in 0..255 and a byte slice is a     *)
(* sequence of bytes.  TLC's integers are 32-bit signed, so a u32 is kept  *)
(* as the pair <<hi, lo>> of its 16-bit halves (value = hi * 2^16 + lo).   *)
(* A &str / String is the sequence of its UTF-8 bytes.                     *)
(***************************************************************************)
EXTENDS Integers, Sequences, FiniteSets, TLC

VARIABLES
    pc,     \* position of the driver: "start", "live", "chunk", "failed"
    png,    \* the container the driver owns, or NoPng
    ret     \* the last call: its name, its arguments and what it returned

vars == <<pc, png, ret>>

(***************************************************************************)
(* Bounds of the model.                                                    *)
(***************************************************************************)
\* longest chunk data the driver builds a chunk from
MaxData == 1
\* longest chunk list handed to from_chunks or encoded into an input buffer
MaxInitChunks == 2
\* longest chunk list the container grows to by append_chunk
MaxChunks == 3

(***************************************************************************)
(* u32 arithmetic.                                                         *)
(***************************************************************************)
RECURSIVE XorBits(_, _, _)
\* a ^ b on n-bit operands
XorBits(a, b, n) ==
    IF n = 0 THEN 0
    ELSE ((a + b) % 2) + 2 * XorBits(a \div 2, b \div 2, n - 1)

\* a ^ b for bytes, tabulated
XorByteTable == [a \in 0..255 |-> [b \in 0..255 |-> XorBits(a, b, 8)]]

Xor16(a, b) ==
    XorByteTable[a % 256][b % 256] + 256 * XorByteTable[a \div 256][b \div 256]

\* a ^ b on u32
Xor32(a, b) == <<Xor16(a[1], b[1]), Xor16(a[2], b[2])>>

\* a >> k on u32, 0 < k < 16
Shr32(a, k) ==
    <<a[1] \div (2^k), (a[2] \div (2^k)) + (a[1] % (2^k)) * (2^(16 - k))>>

\* n as u32, for a host integer n (a usize that TLC can hold, below 2^31)
AsU32(n) == <<n \div 65536, n % 65536>>

\* u32::to_be_bytes
to_be_bytes(v) == <<v[1] \div 256, v[1] % 256, v[2] \div 256, v[2] % 256>>

\* u32::from_be_bytes
from_be_bytes(b) == <<b[1] * 256 + b[2], b[3] * 256 + b[4]>>

\* (v as usize) + base <= limit, for a u32 v and host integers base, limit
\* below 2^16: a v of 2^16 or more exceeds every such limit
FitsWithin(v, base, limit) == v[1] = 0 /\ v[2] + base <= limit

(***************************************************************************)
(* crc32.rs: CRC-32 with the reflected polynomial 0xEDB88320.  chunk.rs    *)
(* calls the crc crate's CRC_32_ISO_HDLC, which is this same function      *)
(* (chunk.rs's test vector 2591807180 is checked in CrcTestVector below).  *)
(***************************************************************************)
\* 0xEDB88320
POLY == <<60856, 33568>>

\* 0xFFFFFFFF
AllOnes == <<65535, 65535>>

RECURSIVE crc_table_entry(_, _)
\* the inner loop of init_crc: k more rounds on c
crc_table_entry(c, k) ==
    IF k = 0 THEN c
    ELSE crc_table_entry(IF c[2] % 2 = 1 THEN Xor32(POLY, Shr32(c, 1))
                                         ELSE Shr32(c, 1),
                         k - 1)

init_crc == [byte \in 0..255 |-> crc_table_entry(AsU32(byte), 8)]

RECURSIVE update_crc_from(_, _, _)
\* the loop of update_crc from the i-th byte on
update_crc_from(buf, i, crc) ==
    IF i > Len(buf) THEN crc
    ELSE LET index == XorByteTable[crc[2] % 256][buf[i]]
             next  == Xor32(init_crc[index], Shr32(crc, 8))
         IN  IF next[1] >= 0 THEN update_crc_from(buf, i + 1, next) ELSE next

update_crc(buf) == update_crc_from(buf, 1, AllOnes)

\* calculate_crc(ctype, data) of crc32.rs, and
\* Crc::<u32>::new(&CRC_32_ISO_HDLC).checksum(ctype.bytes() ++ data) of chunk.rs
calculate_crc(ctype, data) == Xor32(update_crc(ctype \o data), AllOnes)

(***************************************************************************)
(* chunk_type.rs                                                           *)
(***************************************************************************)
is_ascii_uppercase(byte) == byte \in 65..90
is_ascii_lowercase(byte) == byte \in 97..122
is_ascii_alphabetic(byte) == is_ascii_uppercase(byte) \/ is_ascii_lowercase(byte)

\* the results of the fallible calls
Ok(v) == [kind |-> "Ok", value |-> v]
Err(e) == [kind |-> "Err", err |-> e]
\* a panic unwinds out of the call: there is no return value
Panic(where) == [kind |-> "Panic", at |-> where]

\* <ChunkType as TryFrom<[u8; 4]>>::try_from
ChunkTypeTryFrom(value) ==
    IF \E i \in 1..4 : ~is_ascii_alphabetic(value[i])
    THEN Err([name |-> "InvalidByte"])
    ELSE Ok(value)

\* ChunkType::bytes
bytes(chunk_type) == chunk_type

\* `byte as char` written to a String: the UTF-8 encoding of U+0000..U+00FF
CharUtf8(byte) ==
    IF byte < 128 THEN <<byte>> ELSE <<192 + (byte \div 64), 128 + (byte % 64)>>

\* <ChunkType as Display>::fmt, through to_string()
to_string(chunk_type) ==
    CharUtf8(chunk_type[1]) \o CharUtf8(chunk_type[2])
        \o CharUtf8(chunk_type[3]) \o CharUtf8(chunk_type[4])

(***************************************************************************)
(* chunk.rs                                                                *)
(***************************************************************************)
\* Chunk::new
ChunkNew(chunk_type, data) ==
    [length     |-> AsU32(Len(data)),
     chunk_type |-> chunk_type,
     chunk_data |-> data,
     crc        |-> calculate_crc(bytes(chunk_type), data)]

\* ChunkAsBytes with the length written little-endian (to_le_bytes)
ChunkAsBytesLittleEndian(chunk) ==
    LET be == to_be_bytes(chunk.length) IN
    <<be[4], be[3], be[2], be[1]>> \o bytes(chunk.chunk_type)
        \o chunk.chunk_data \o to_be_bytes(chunk.crc)

\* Chunk::as_bytes
ChunkAsBytes(chunk) ==
    to_be_bytes(chunk.length) \o bytes(chunk.chunk_type)
        \o chunk.chunk_data \o to_be_bytes(chunk.crc)

IoError == Err([name |-> "ReadFromByteSlice"])

\* ChunkTryFrom that stores the fields it read without recomputing the CRC
ChunkTryFromTrusting(value) ==
    IF Len(value) < 8 THEN IoError
    ELSE LET chunk_length == from_be_bytes(SubSeq(value, 1, 4))
             chunk_type   == ChunkTypeTryFrom(SubSeq(value, 5, 8)) IN
    IF chunk_type.kind = "Err" THEN chunk_type
    ELSE IF ~FitsWithin(chunk_length, 12, Len(value)) THEN IoError
    ELSE LET n == chunk_length[2] IN
         Ok([length     |-> chunk_length,
             chunk_type |-> chunk_type.value,
             chunk_data |-> SubSeq(value, 9, 8 + n),
             crc        |-> from_be_bytes(SubSeq(value, 9 + n, 12 + n))])

\* ChunkTryFrom with `got` and `expected` of the InvalidCrc error exchanged
ChunkTryFromSwapped(value) ==
    IF Len(value) < 8 THEN IoError
    ELSE LET chunk_length == from_be_bytes(SubSeq(value, 1, 4))
             chunk_type   == ChunkTypeTryFrom(SubSeq(value, 5, 8)) IN
    IF chunk_type.kind = "Err" THEN chunk_type
    ELSE IF ~FitsWithin(chunk_length, 12, Len(value)) THEN IoError
    ELSE LET n            == chunk_length[2]
             chunk_data   == SubSeq(value, 9, 8 + n)
             received_crc == from_be_bytes(SubSeq(value, 9 + n, 12 + n))
             actual_crc   == calculate_crc(bytes(chunk_type.value), chunk_data)
         IN  IF received_crc = actual_crc
             THEN Ok(ChunkNew(chunk_type.value, chunk_data))
             ELSE Err([name     |-> "InvalidCrc",
                       got      |-> actual_crc,
                       expected |-> received_crc])

\* <Chunk as TryFrom<&[u8]>>::try_from.  read_exact fails with UnexpectedEof
\* when the reader holds fewer bytes than the buffer to fill.  usize has 32
\* bits or more, so usize::try_from(chunk_length) succeeds; the allocation
\* of the data buffer (chunk.rs:106) is taken to succeed.
ChunkTryFrom(value) ==
    IF Len(value) < 4 THEN IoError
    ELSE LET chunk_length == from_be_bytes(SubSeq(value, 1, 4)) IN
    IF Len(value) < 8 THEN IoError
    ELSE LET chunk_type == ChunkTypeTryFrom(SubSeq(value, 5, 8)) IN
    IF chunk_type.kind = "Err" THEN chunk_type
    ELSE IF ~FitsWithin(chunk_length, 8, Len(value)) THEN IoError
    ELSE LET n          == chunk_length[2]
             chunk_data == SubSeq(value, 9, 8 + n) IN
    IF Len(value) < 8 + n + 4 THEN IoError
    ELSE LET received_crc == from_be_bytes(SubSeq(value, 9 + n, 12 + n))
             actual_crc   == calculate_crc(bytes(chunk_type.value), chunk_data)
         IN  IF received_crc = actual_crc
             THEN Ok(ChunkNew(chunk_type.value, chunk_data))
             ELSE Err([name     |-> "InvalidCrc",
                       got      |-> received_crc,
                       expected |-> actual_crc])

(***************************************************************************)
(* png.rs                                                                  *)
(***************************************************************************)
PNG_FILE_SIGNATURE == <<137, 80, 78, 71, 13, 10, 26, 10>>

MIN_CHUNK_LENGTH == 12

NoPng == [kind |-> "None"]

\* Png::from_chunks
PngFromChunks(chunks) ==
    [kind |-> "Png", signature |-> PNG_FILE_SIGNATURE, chunks |-> chunks]

\* FirstMatch searching from the back (rfind)
LastMatch(chunks, chunk_type, i) ==
    LET matches == {k \in i..Len(chunks) : to_string(chunks[k].chunk_type) = chunk_type}
    IN  IF matches = {} THEN [kind |-> "None"]
        ELSE LET last == CHOOSE k \in matches : \A j \in matches : j <= k
             IN  [kind |-> "Some", index |-> last - 1, chunk |-> chunks[last]]

RECURSIVE FirstMatch(_, _, _)
\* iter().enumerate().find(..) from position i (1-based) on
FirstMatch(chunks, chunk_type, i) ==
    IF i > Len(chunks) THEN [kind |-> "None"]
    ELSE IF to_string(chunks[i].chunk_type) = chunk_type
         THEN [kind |-> "Some", index |-> i - 1, chunk |-> chunks[i]]
         ELSE FirstMatch(chunks, chunk_type, i + 1)

\* Png::search_chunk; the index it returns is 0-based
search_chunk(self, chunk_type) == FirstMatch(self.chunks, chunk_type, 1)

\* Vec::push
VecPush(v, x) == Append(v, x)

\* Vec::swap_remove: the last element takes the place of the one removed
VecSwapRemove(v, index) ==
    IF index + 1 = Len(v) THEN SubSeq(v, 1, index)
    ELSE SubSeq([v EXCEPT ![index + 1] = v[Len(v)]], 1, Len(v) - 1)

\* Vec::remove at a 0-based index
VecRemove(v, index) == SubSeq(v, 1, index) \o SubSeq(v, index + 2, Len(v))

\* append_chunk that replaces the first chunk of the same type code, if any
append_chunk_replacing(self, chunk) ==
    LET same == {k \in 1..Len(self.chunks) :
                    self.chunks[k].chunk_type = chunk.chunk_type}
    IN  IF same = {} THEN [self EXCEPT !.chunks = Append(self.chunks, chunk)]
        ELSE [self EXCEPT !.chunks[CHOOSE k \in same : \A j \in same : k <= j] = chunk]

\* Png::append_chunk: the container afterwards
append_chunk(self, chunk) == [self EXCEPT !.chunks = VecPush(self.chunks, chunk)]

\* remove_chunk that takes index 0 when the search finds nothing
remove_chunk_defaulting(self, chunk_type) ==
    LET query == search_chunk(self, chunk_type)
        index == IF query.kind = "None" THEN 0 ELSE query.index
    IN  IF self.chunks = <<>>
        THEN [self |-> self, result |-> Err([name |-> "ChunkNotFound"])]
        ELSE [self   |-> [self EXCEPT !.chunks = VecRemove(self.chunks, index)],
              result |-> Ok(self.chunks[index + 1])]

\* Png::remove_chunk: the container afterwards and the value returned
remove_chunk(self, chunk_type) ==
    LET query == search_chunk(self, chunk_type) IN
    IF query.kind = "None"
    THEN [self |-> self, result |-> Err([name |-> "ChunkNotFound"])]
    ELSE [self   |-> [self EXCEPT !.chunks = VecRemove(self.chunks, query.index)],
          result |-> Ok(self.chunks[query.index + 1])]

RECURSIVE PngChunkLoopShortSpan(_, _, _)
\* PngChunkLoop with the span of a chunk taken as 8 + length, its CRC left out
PngChunkLoopShortSpan(value, starting_cursor, chunks) ==
    IF ~(starting_cursor < Len(value))
    THEN Ok([kind |-> "Png", signature |-> SubSeq(value, 1, 8), chunks |-> chunks])
    ELSE IF starting_cursor + 4 > Len(value) THEN Panic("png.rs:86")
    ELSE LET chunk_length ==
                 from_be_bytes(SubSeq(value, starting_cursor + 1, starting_cursor + 4))
         IN
    IF ~FitsWithin(chunk_length, 8 + starting_cursor, Len(value))
    THEN Panic("png.rs:93")
    ELSE LET end_cursor == 8 + chunk_length[2] + starting_cursor
             chunk      == ChunkTryFrom(SubSeq(value, starting_cursor + 1, end_cursor))
         IN  IF chunk.kind = "Err" THEN chunk
             ELSE PngChunkLoopShortSpan(value, end_cursor, VecPush(chunks, chunk.value))

RECURSIVE PngChunkLoop(_, _, _)
\* the while loop of <Png as TryFrom<&[u8]>>::try_from.  Indexing a slice
\* with a range that ends past its length panics.  Where usize has 32 bits
\* the sum of png.rs:90 can overflow for a length near 2^32: the addition
\* panics, or it wraps and the range of png.rs:93 panics; the call panics
\* on every target, as here.
PngChunkLoop(value, starting_cursor, chunks) ==
    IF ~(starting_cursor < Len(value))
    THEN Ok([kind |-> "Png", signature |-> SubSeq(value, 1, 8), chunks |-> chunks])
    ELSE IF starting_cursor + 4 > Len(value) THEN Panic("png.rs:86")
    ELSE LET chunk_length ==
                 from_be_bytes(SubSeq(value, starting_cursor + 1, starting_cursor + 4))
         IN
    IF ~FitsWithin(chunk_length, MIN_CHUNK_LENGTH + starting_cursor, Len(value))
    THEN Panic("png.rs:93")
    ELSE LET end_cursor == MIN_CHUNK_LENGTH + chunk_length[2] + starting_cursor
             chunk      == ChunkTryFrom(SubSeq(value, starting_cursor + 1, end_cursor))
         IN  IF chunk.kind = "Err" THEN chunk
             ELSE PngChunkLoop(value, end_cursor, VecPush(chunks, chunk.value))

\* PngTryFrom that reads the chunks before it looks at the signature
PngTryFromChunksFirst(value) ==
    IF Len(value) < 8 THEN Panic("png.rs:72")
    ELSE LET parsed == PngChunkLoop(value, 8, <<>>) IN
         IF parsed.kind # "Ok" THEN parsed
         ELSE IF SubSeq(value, 1, 8) # PNG_FILE_SIGNATURE
              THEN Err([name |-> "InvalidPngSignature"])
              ELSE parsed

\* <Png as TryFrom<&[u8]>>::try_from
PngTryFrom(value) ==
    IF Len(value) < 8 THEN Panic("png.rs:72")
    ELSE IF SubSeq(value, 1, 8) # PNG_FILE_SIGNATURE
         THEN Err([name |-> "InvalidPngSignature"])
         ELSE PngChunkLoop(value, 8, <<>>)

RECURSIVE FlatMapAsBytes(_)
\* chunks.into_iter().flat_map(|chunk| chunk.as_bytes()).collect()
FlatMapAsBytes(chunks) ==
    IF chunks = <<>> THEN <<>>
    ELSE ChunkAsBytes(Head(chunks)) \o FlatMapAsBytes(Tail(chunks))

\* the bytes of a PNG file holding `chunks`: the signature, then every chunk
PngBytes(chunks) == PNG_FILE_SIGNATURE \o FlatMapAsBytes(chunks)

(***************************************************************************)
(* The inputs the driver works with.                                       *)
(***************************************************************************)
\* "RuSt" and "TeAr", two of the type codes of png.rs's tests
TypeCodes == {<<82, 117, 83, 116>>, <<84, 101, 65, 114>>}

\* the strings looked for: "RuSt", "TeAr", "CuTe" (never present) and "rust"
\* ("RuSt" in another case)
Queries ==
    {<<82, 117, 83, 116>>, <<84, 101, 65, 114>>,
     <<67, 117, 84, 101>>, <<114, 117, 115, 116>>}

\* the byte chunk data is made of: "!"
DataBytes == {33}

\* the values a corrupted byte takes: NUL, "A" and 0xFF
TamperBytes == {0, 65, 255}

SeqsUpTo(S, n) == UNION {[1..k -> S] : k \in 0..n}

Datas == SeqsUpTo(DataBytes, MaxData)

\* the chunks the driver builds with Chunk::new
InputChunks == {ChunkNew(t, d) : t \in TypeCodes, d \in Datas}

\* the chunk lists the driver starts from
InitLists == SeqsUpTo(InputChunks, MaxInitChunks)

\* How an encoded buffer of length len is damaged before it is decoded:
\* not at all, cut to its first n bytes, byte i (1-based) replaced by b,
\* n zero bytes added at its end, or byte i of the signature replaced by b
\* and the buffer cut to n >= 8 bytes.
Mutation(kind, n, i, b) == [kind |-> kind, n |-> n, i |-> i, b |-> b]

Intact == Mutation("intact", 0, 0, 0)

ChunkMutations(len) ==
    {Intact}
        \cup {Mutation("truncate", n, 0, 0) : n \in 0..(len - 1)}
        \cup {Mutation("replace", 0, i, b) : i \in 1..len, b \in TamperBytes}
        \cup {Mutation("extend", n, 0, 0) : n \in 1..4}

PngMutations(len) ==
    ChunkMutations(len)
        \cup {Mutation("replace_truncate", n, i, 0) : n \in 8..(len - 1), i \in 1..8}

Mutate(buf, m) ==
    CASE m.kind = "intact"   -> buf
      [] m.kind = "truncate" -> SubSeq(buf, 1, m.n)
      [] m.kind = "replace"  -> [buf EXCEPT ![m.i] = m.b]
      [] m.kind = "extend"   -> buf \o [k \in 1..m.n |-> 0]
      [] m.kind = "replace_truncate" -> SubSeq([buf EXCEPT ![m.i] = m.b], 1, m.n)

(***************************************************************************)
(* The driver.  It starts with nothing; it builds a chunk (Chunk::new),    *)
(* decodes one (Chunk::try_from), builds a container (Png::from_chunks) or *)
(* decodes one (Png::try_from).  A container, once it exists, is searched, *)
(* appended to and removed from.  An error or a panic ends the run, as     *)
(* main's `?` does.                                                        *)
(***************************************************************************)
Init ==
    /\ pc = "start"
    /\ png = NoPng
    /\ ret = [op |-> "none"]

\* Chunk::new(chunk_type, data)
NewChunk ==
    /\ pc = "start"
    /\ \E chunk_type \in TypeCodes, data \in Datas :
          ret' = [op |-> "chunk_new", chunk_type |-> chunk_type, data |-> data,
                  result |-> ChunkNew(chunk_type, data)]
    /\ pc' = "chunk"
    /\ UNCHANGED png

\* Chunk::try_from(value), value being the bytes of a chunk, maybe damaged
DecodeChunk ==
    /\ pc = "start"
    /\ \E origin \in InputChunks :
       \E m \in ChunkMutations(Len(ChunkAsBytes(origin))) :
          LET value  == Mutate(ChunkAsBytes(origin), m)
              result == ChunkTryFrom(value)
          IN  /\ value = ChunkAsBytes(origin) => m = Intact
              /\ ret' = [op |-> "chunk_try_from", value |-> value,
                         origin |-> origin, mutation |-> m, result |-> result]
              /\ pc' = IF result.kind = "Ok" THEN "chunk" ELSE "failed"
    /\ UNCHANGED png

\* Png::from_chunks(chunks)
FromChunks ==
    /\ pc = "start"
    /\ \E chunks \in InitLists :
          /\ png' = PngFromChunks(chunks)
          /\ ret' = [op |-> "from_chunks", chunks |-> chunks]
    /\ pc' = "live"

\* Png::try_from(value), value being the bytes of a PNG file, maybe damaged
DecodePng ==
    /\ pc = "start"
    /\ \E origin \in InitLists :
       \E m \in PngMutations(Len(PngBytes(origin))) :
          LET value  == Mutate(PngBytes(origin), m)
              result == PngTryFrom(value)
          IN  /\ value = PngBytes(origin) => m = Intact
              /\ ret' = [op |-> "png_try_from", value |-> value,
                         origin |-> origin, mutation |-> m, result |-> result]
              /\ png' = IF result.kind = "Ok" THEN result.value ELSE NoPng
              /\ pc' = IF result.kind = "Ok" THEN "live" ELSE "failed"

\* png.search_chunk(chunk_type)
SearchChunk ==
    /\ pc = "live"
    /\ \E chunk_type \in Queries :
          ret' = [op |-> "search_chunk", chunk_type |-> chunk_type, pre |-> png,
                  result |-> search_chunk(png, chunk_type)]
    /\ UNCHANGED <<pc, png>>

\* png.append_chunk(chunk)
AppendChunk ==
    /\ pc = "live"
    /\ Len(png.chunks) < MaxChunks
    /\ \E chunk \in InputChunks :
          /\ png' = append_chunk(png, chunk)
          /\ ret' = [op |-> "append_chunk", chunk |-> chunk, pre |-> png]
    /\ UNCHANGED pc

\* png.remove_chunk(chunk_type)
RemoveChunk ==
    /\ pc = "live"
    /\ \E chunk_type \in Queries :
          LET after == remove_chunk(png, chunk_type)
          IN  /\ png' = after.self
              /\ ret' = [op |-> "remove_chunk", chunk_type |-> chunk_type,
                         pre |-> png, result |-> after.result]
    /\ UNCHANGED pc

Next ==
    \/ NewChunk
    \/ DecodeChunk
    \/ FromChunks
    \/ DecodePng
    \/ SearchChunk
    \/ AppendChunk
    \/ RemoveChunk

Spec == Init /\ [][Next]_vars

(***************************************************************************)
(* Properties.                                                             *)
(***************************************************************************)
\* The CRC-32 of "RuSt" ++ "My life is like an eternal night..." is
\* 2591807180 = 0x9A7BD6CC (chunk.rs, test_new_chunk), and that of no bytes is 0.
CrcTestVector ==
    /\ to_be_bytes(calculate_crc(<<82, 117, 83, 116>>,
            <<77, 121, 32, 108, 105, 102, 101, 32, 105, 115, 32, 108, 105, 107,
              101, 32, 97, 110, 32, 101, 116, 101, 114, 110, 97, 108, 32, 110,
              105, 103, 104, 116, 46, 46, 46>>)) = <<154, 123, 214, 204>>
    /\ calculate_crc(<<>>, <<>>) = <<0, 0>>

\* C1: decoding the bytes as_bytes() gives for a chunk built by Chunk::new
\* (its data empty or not) succeeds, and the chunk decoded has the length, the
\* type code, the data and the checksum of the chunk encoded.
C1_ChunkRoundTrip ==
    (ret.op = "chunk_try_from" /\ ret.value = ChunkAsBytes(ret.origin)) =>
        /\ ret.result.kind = "Ok"
        /\ ret.result.value.length = ret.origin.length
        /\ ret.result.value.chunk_type = ret.origin.chunk_type
        /\ ret.result.value.chunk_data = ret.origin.chunk_data
        /\ ret.result.value.crc = ret.origin.crc

\* an encoded chunk without data has been decoded
C1_Witness ==
    /\ ret.op = "chunk_try_from"
    /\ ret.value = ChunkAsBytes(ret.origin)
    /\ ret.origin.chunk_data = <<>>
    /\ ret.result.kind = "Ok"

\* the chunks that exist: those of the container, and the one the last call
\* built, decoded, found or removed
LiveChunks ==
    (IF png.kind = "Png" THEN {png.chunks[i] : i \in 1..Len(png.chunks)} ELSE {})
        \cup (IF ret.op = "chunk_new" THEN {ret.result} ELSE {})
        \cup (IF ret.op \in {"chunk_try_from", "remove_chunk"} /\ ret.result.kind = "Ok"
              THEN {ret.result.value} ELSE {})
        \cup (IF ret.op = "search_chunk" /\ ret.result.kind = "Some"
              THEN {ret.result.chunk} ELSE {})

\* C2: every chunk that exists, alone or in the container, built by Chunk::new
\* or decoded, has the number of its data bytes as its length and the CRC-32
\* of its type code followed by its data (the length left out) as its checksum.
C2_ChunkIntegrity ==
    \A c \in LiveChunks :
        /\ c.length = AsU32(Len(c.chunk_data))
        /\ c.crc = calculate_crc(c.chunk_type, c.chunk_data)

\* a chunk with data has been removed from the container and others stay in it
C2_Witness ==
    /\ ret.op = "remove_chunk"
    /\ ret.result.kind = "Ok"
    /\ ret.result.value.chunk_data # <<>>
    /\ Len(png.chunks) >= 1

\* length N, four letters, N bytes of data, four bytes of checksum
WellFramed(value) ==
    /\ Len(value) >= 12
    /\ from_be_bytes(SubSeq(value, 1, 4)) = AsU32(Len(value) - 12)
    /\ \A i \in 5..8 : is_ascii_alphabetic(value[i])

\* C3: decoding a well-framed chunk succeeds when the checksum it carries is
\* the CRC-32 of its type code and data; otherwise it fails with InvalidCrc,
\* `expected` being the CRC-32 computed and `got` the checksum carried.
C3_ChecksumGate ==
    (ret.op = "chunk_try_from" /\ WellFramed(ret.value)) =>
        LET n        == Len(ret.value) - 12
            carried  == from_be_bytes(SubSeq(ret.value, 9 + n, 12 + n))
            computed == calculate_crc(SubSeq(ret.value, 5, 8), SubSeq(ret.value, 9, 8 + n))
        IN  IF carried = computed
            THEN ret.result.kind = "Ok"
            ELSE ret.result = Err([name |-> "InvalidCrc", got |-> carried,
                                   expected |-> computed])

\* a well-framed chunk with a wrong checksum has been refused
C3_Witness ==
    /\ ret.op = "chunk_try_from"
    /\ WellFramed(ret.value)
    /\ ret.result.kind = "Err"
    /\ ret.result.err.name = "InvalidCrc"

RECURSIVE CutShort(_, _)
\* With the chunks before `cursor` (0-based) decoded, the buffer ends inside
\* the chunk at `cursor` or inside one after it: bytes remain, but fewer than
\* the 4 of a length field or than the 12 + length of the chunk.
CutShort(value, cursor) ==
    IF cursor >= Len(value) THEN FALSE
    ELSE IF cursor + 4 > Len(value) THEN TRUE
    ELSE LET declared == from_be_bytes(SubSeq(value, cursor + 1, cursor + 4)) IN
         IF ~FitsWithin(declared, 12 + cursor, Len(value)) THEN TRUE
         ELSE LET next == cursor + 12 + declared[2] IN
              /\ ChunkTryFrom(SubSeq(value, cursor + 1, next)).kind = "Ok"
              /\ CutShort(value, next)

HasSignature(value) ==
    Len(value) >= 8 /\ SubSeq(value, 1, 8) = PNG_FILE_SIGNATURE

\* C4: decoding a buffer that has the signature and is cut short at a chunk
\* boundary (fewer than 4 bytes left for the length, or fewer than 12 + length
\* for the chunk) returns the error of a truncated input; it does not panic
\* and returns no container.
C4_TruncationIsAnError ==
    (ret.op = "png_try_from" /\ HasSignature(ret.value) /\ CutShort(ret.value, 8)) =>
        /\ ret.result = IoError
        /\ png = NoPng

\* C5: decoding a buffer of 8 bytes or more whose first 8 bytes are not the
\* signature fails with InvalidPngSignature, whatever follows them, and
\* leaves no container.
C5_SignatureGate ==
    (ret.op = "png_try_from" /\ Len(ret.value) >= 8
        /\ SubSeq(ret.value, 1, 8) # PNG_FILE_SIGNATURE) =>
        /\ ret.result = Err([name |-> "InvalidPngSignature"])
        /\ png = NoPng

\* a buffer with a wrong signature and a chunk cut short has been refused
\* for its signature
C5_Witness ==
    /\ ret.op = "png_try_from"
    /\ Len(ret.value) > 8
    /\ SubSeq(ret.value, 1, 8) # PNG_FILE_SIGNATURE
    /\ CutShort(ret.value, 8)
    /\ ret.result = Err([name |-> "InvalidPngSignature"])

\* C6: decoding the signature followed by the encodings of a list of chunks,
\* in order, succeeds and gives a container with the signature and the same
\* chunks in the same order; the signature alone gives no chunks.
C6_PngRoundTrip ==
    (ret.op = "png_try_from" /\ ret.value = PngBytes(ret.origin)) =>
        /\ ret.result.kind = "Ok"
        /\ ret.result.value.signature = PNG_FILE_SIGNATURE
        /\ ret.result.value.chunks = ret.origin
        /\ png = ret.result.value
        /\ ret.value = PNG_FILE_SIGNATURE => png.chunks = <<>>

\* two different chunks of one type code have been encoded and decoded
C6_Witness ==
    /\ ret.op = "png_try_from"
    /\ ret.value = PngBytes(ret.origin)
    /\ Len(ret.origin) = 2
    /\ ret.origin[1].chunk_type = ret.origin[2].chunk_type
    /\ ret.origin[1] # ret.origin[2]
    /\ ret.result.kind = "Ok"

\* the 1-based positions of the chunks whose type code reads chunk_type
Matches(chunks, chunk_type) ==
    {i \in 1..Len(chunks) : to_string(chunks[i].chunk_type) = chunk_type}

Least(S) == CHOOSE k \in S : \A j \in S : k <= j

\* C7: search_chunk returns None exactly when no chunk's type code is the
\* string asked for (case matters); otherwise it returns the smallest index
\* of such a chunk with that chunk.  It leaves the container as it was.
C7_SearchFirstMatch ==
    ret.op = "search_chunk" =>
        LET chunks  == ret.pre.chunks
            matches == Matches(chunks, ret.chunk_type)
        IN  /\ matches = {} <=> ret.result.kind = "None"
            /\ matches # {} =>
                  ret.result = [kind  |-> "Some",
                                index |-> Least(matches) - 1,
                                chunk |-> chunks[Least(matches)]]
            /\ png = ret.pre

\* a search has returned a chunk that a different chunk of the same type
\* code follows
C7_Witness ==
    /\ ret.op = "search_chunk"
    /\ ret.result.kind = "Some"
    /\ \E j \in Matches(png.chunks, ret.chunk_type) :
          /\ j > ret.result.index + 1
          /\ png.chunks[j] # ret.result.chunk

\* C8: remove_chunk, when a chunk has the type code asked for, returns the
\* first such chunk and takes it out: one chunk fewer, the others (later
\* chunks of the same type code too) as they were and in their order, the
\* signature unchanged.  If it was the only one of its type code, a search
\* for that type code now finds nothing.
C8_RemoveFirstMatch ==
    (ret.op = "remove_chunk" /\ Matches(ret.pre.chunks, ret.chunk_type) # {}) =>
        LET chunks  == ret.pre.chunks
            matches == Matches(chunks, ret.chunk_type)
            k       == Least(matches)
        IN  /\ ret.result = Ok(chunks[k])
            /\ Len(png.chunks) = Len(chunks) - 1
            /\ \A i \in 1..(k - 1) : png.chunks[i] = chunks[i]
            /\ \A i \in k..(Len(chunks) - 1) : png.chunks[i] = chunks[i + 1]
            /\ png.signature = ret.pre.signature
            /\ Cardinality(matches) = 1 =>
                  search_chunk(png, ret.chunk_type).kind = "None"

\* the first of three chunks has been removed, and a later chunk of its type
\* code stays
C8_Witness ==
    /\ ret.op = "remove_chunk"
    /\ ret.result.kind = "Ok"
    /\ Len(ret.pre.chunks) = 3
    /\ ret.pre.chunks[1] = ret.result.value
    /\ ret.pre.chunks[2] # ret.pre.chunks[3]
    /\ Matches(png.chunks, ret.chunk_type) # {}

\* C9: remove_chunk, when no chunk has the type code asked for, fails with
\* ChunkNotFound and leaves the chunks and the signature as they were.
C9_RemoveNotFound ==
    (ret.op = "remove_chunk" /\ Matches(ret.pre.chunks, ret.chunk_type) = {}) =>
        /\ ret.result = Err([name |-> "ChunkNotFound"])
        /\ png = ret.pre

\* a removal from a container that holds chunks has found none to remove
C9_Witness ==
    /\ ret.op = "remove_chunk"
    /\ ret.pre.chunks # <<>>
    /\ Matches(ret.pre.chunks, ret.chunk_type) = {}
    /\ ret.result.kind = "Err"

\* C10: append_chunk adds one chunk, at the last index, and leaves the chunks
\* that were there, their order and the signature as they were, also when a
\* chunk of the same type code is there already: a search for that type code
\* then still returns the earlier chunk.
C10_AppendAtEnd ==
    ret.op = "append_chunk" =>
        LET chunks == ret.pre.chunks
            text   == to_string(ret.chunk.chunk_type)
        IN  /\ Len(png.chunks) = Len(chunks) + 1
            /\ png.chunks[Len(png.chunks)] = ret.chunk
            /\ \A i \in 1..Len(chunks) : png.chunks[i] = chunks[i]
            /\ png.signature = ret.pre.signature
            /\ Matches(chunks, text) # {} =>
                  search_chunk(png, text) = search_chunk(ret.pre, text)

\* a chunk has been appended to a container that held another chunk of its
\* type code
C10_Witness ==
    /\ ret.op = "append_chunk"
    /\ \E i \in 1..Len(ret.pre.chunks) :
          /\ ret.pre.chunks[i].chunk_type = ret.chunk.chunk_type
          /\ ret.pre.chunks[i] # ret.chunk

(***************************************************************************)
(* <Png as TryFrom<&[u8]>>::try_from, statement by statement.  Here pc is  *)
(* the position inside the call: "ReadSignature" (png.rs:72-79),           *)
(* "ReadChunkLoop" (png.rs:83-96), "Done" (png.rs:98 has returned Ok),     *)
(* "Failed" (a `?` or the signature test has returned Err) or "Panicked"   *)
(* (a range index has unwound the call).  ret holds the argument and the   *)
(* locals of the call, png the container returned, if any.                 *)
(***************************************************************************)
\* the buffers decoded: the bytes of a PNG file, maybe damaged
DecodeInputs ==
    UNION {{Mutate(PngBytes(origin), m) : m \in PngMutations(Len(PngBytes(origin)))}
              : origin \in InitLists}

Running == [kind |-> "Running"]

DecodeInit ==
    /\ pc = "ReadSignature"
    /\ png = NoPng
    /\ \E value \in DecodeInputs :
          ret = [op |-> "png_try_from", value |-> value, starting_cursor |-> 0,
                 chunks |-> <<>>, result |-> Running]

\* png.rs:72-79: take the signature, compare it, set up the loop
ReadSignature ==
    /\ pc = "ReadSignature"
    /\ IF Len(ret.value) < 8
       THEN /\ pc' = "Panicked"
            /\ ret' = [ret EXCEPT !.result = Panic("png.rs:72")]
       ELSE IF SubSeq(ret.value, 1, 8) # PNG_FILE_SIGNATURE
       THEN /\ pc' = "Failed"
            /\ ret' = [ret EXCEPT !.result = Err([name |-> "InvalidPngSignature"])]
       ELSE /\ pc' = "ReadChunkLoop"
            /\ ret' = [ret EXCEPT !.starting_cursor = 8]
    /\ UNCHANGED png

\* png.rs:83-96: one turn of the while loop
ReadChunk ==
    /\ pc = "ReadChunkLoop"
    /\ ret.starting_cursor < Len(ret.value)
    /\ LET value           == ret.value
           starting_cursor == ret.starting_cursor
       IN  IF starting_cursor + 4 > Len(value)
           THEN /\ pc' = "Panicked"
                /\ ret' = [ret EXCEPT !.result = Panic("png.rs:86")]
           ELSE LET chunk_length == from_be_bytes(
                        SubSeq(value, starting_cursor + 1, starting_cursor + 4))
                IN
           IF ~FitsWithin(chunk_length, MIN_CHUNK_LENGTH + starting_cursor, Len(value))
           THEN /\ pc' = "Panicked"
                /\ ret' = [ret EXCEPT !.result = Panic("png.rs:93")]
           ELSE LET end_cursor == MIN_CHUNK_LENGTH + chunk_length[2] + starting_cursor
                    chunk == ChunkTryFrom(SubSeq(value, starting_cursor + 1, end_cursor))
                IN  IF chunk.kind = "Err"
                    THEN /\ pc' = "Failed"
                         /\ ret' = [ret EXCEPT !.result = chunk]
                    ELSE /\ pc' = "ReadChunkLoop"
                         /\ ret' = [ret EXCEPT
                                      !.chunks = VecPush(ret.chunks, chunk.value),
                                      !.starting_cursor = end_cursor]
    /\ UNCHANGED png

\* png.rs:83, 98: the loop test fails and the container is returned
ReturnPng ==
    /\ pc = "ReadChunkLoop"
    /\ ~(ret.starting_cursor < Len(ret.value))
    /\ pc' = "Done"
    /\ png' = [kind |-> "Png", signature |-> SubSeq(ret.value, 1, 8),
               chunks |-> ret.chunks]
    /\ ret' = [ret EXCEPT !.result = Ok(png')]

DecodeNext ==
    \/ ReadSignature
    \/ ReadChunk
    \/ ReturnPng

DecodeSpec == DecodeInit /\ [][DecodeNext]_vars

\* the call, once over, has returned what PngTryFrom gives for its argument
StepsAgreeWithPngTryFrom ==
    pc \in {"Done", "Failed", "Panicked"} => ret.result = PngTryFrom(ret.value)

\* the call runs on: the statements of a function follow one another
FairDecodeSpec == DecodeSpec /\ WF_vars(DecodeNext)

\* what C11 says of a state of the decode
AllOrNothingState ==
    /\ pc \in {"ReadSignature", "ReadChunkLoop", "Done", "Failed"}
    /\ pc # "Done" => png = NoPng
    /\ pc = "Failed" => ret.result.kind = "Err"
    /\ pc = "Done" =>
          /\ ret.starting_cursor = Len(ret.value)
          /\ ret.result = Ok(png)
          /\ png.signature = PNG_FILE_SIGNATURE
          /\ png.chunks = ret.chunks
          /\ PngBytes(png.chunks) = ret.value

\* C11: a run of the decode is at ReadSignature, in ReadChunkLoop, Done or
\* Failed with an error, and nowhere else; it reaches Done or Failed and
\* takes no step from there.  Failed, it has read no further chunk and
\* returns no container, whatever chunks it had decoded; no container exists
\* before Done; Done, the cursor is at the end of the buffer and the
\* container holds every chunk of the buffer, in the buffer's order.
C11_AllOrNothing ==
    /\ [](AllOrNothingState)
    /\ [][pc \notin {"Done", "Failed"}]_vars
    /\ <>(pc \in {"Done", "Failed"})

(***************************************************************************)
(* chunk_type.rs: a type code is made from four bytes and asked whether it *)
(* is valid.                                                               *)
(***************************************************************************)
\* ChunkType::is_reserved_bit_valid
is_reserved_bit_valid(self) == is_ascii_uppercase(self[3])

\* is_valid looking at the second byte (is_public) instead of the third
is_valid_by_second_byte(self) ==
    IF ~is_ascii_uppercase(self[2]) THEN FALSE
    ELSE ~(\E i \in 1..4 : ~is_ascii_alphabetic(self[i]))

\* ChunkType::is_valid
is_valid(self) ==
    IF ~is_reserved_bit_valid(self) THEN FALSE
    ELSE ~(\E i \in 1..4 : ~is_ascii_alphabetic(self[i]))

\* the bytes a type code is made from: "1", NUL, 0xFF, and the letters at the
\* ends of "A".."Z" and "a".."z" with the bytes next to them
TypeBytes == {0, 49, 64, 65, 90, 91, 96, 97, 122, 123, 255}

\* ChunkType::try_from(value)
ChunkTypeFromBytes ==
    /\ pc = "start"
    /\ \E value \in [1..4 -> TypeBytes] :
          LET result == ChunkTypeTryFrom(value)
          IN  /\ ret' = [op |-> "chunk_type_try_from", value |-> value,
                         self |-> IF result.kind = "Ok" THEN result.value ELSE <<>>,
                         result |-> result]
              /\ pc' = IF result.kind = "Ok" THEN "type" ELSE "failed"
    /\ UNCHANGED png

\* self.is_valid()
ChunkTypeIsValid ==
    /\ pc = "type"
    /\ ret' = [op |-> "is_valid", value |-> ret.value, self |-> ret.self,
               result |-> is_valid(ret.self)]
    /\ UNCHANGED <<pc, png>>

TypeNext ==
    \/ ChunkTypeFromBytes
    \/ ChunkTypeIsValid

TypeSpec == Init /\ [][TypeNext]_vars

\* an ASCII letter
Letter(byte) == (65 <= byte /\ byte <= 90) \/ (97 <= byte /\ byte <= 122)

\* a letter in its other case
OtherCase(byte) == IF byte <= 90 THEN byte + 32 ELSE byte - 32

\* C12: a type code is made from four bytes exactly when all four are ASCII
\* letters, and the attempt fails with InvalidByte otherwise; is_valid() of a
\* type code is true exactly when its third byte is an uppercase letter, and
\* is the same for the type code with byte 0, 1 or 3 in its other case.
C12_ValidityIndependence ==
    /\ ret.op = "chunk_type_try_from" =>
          /\ ret.result.kind = "Ok" <=> \A i \in 1..4 : Letter(ret.value[i])
          /\ ret.result.kind = "Ok" => bytes(ret.result.value) = ret.value
          /\ ret.result.kind # "Ok" => ret.result = Err([name |-> "InvalidByte"])
    /\ ret.op = "is_valid" =>
          /\ ret.result <=> (65 <= ret.self[3] /\ ret.self[3] <= 90)
          /\ \A i \in {1, 2, 4} :
                is_valid([ret.self EXCEPT ![i] = OtherCase(ret.self[i])]) = ret.result

\* a type code of four letters, the third lowercase and the others
\* uppercase, has been made and is not valid
C12_Witness ==
    /\ ret.op = "is_valid"
    /\ \A i \in {1, 2, 4} : ret.self[i] \in 65..90
    /\ ret.self[3] \in 97..122
    /\ ret.result = FALSE

\* C13: decoding a buffer of fewer than 8 bytes (none at all, or the first
\* bytes of the signature) returns an error; it does not panic and gives no
\* container.
C13_ShortBufferIsAnError ==
    (ret.op = "png_try_from" /\ Len(ret.value) < 8) =>
        /\ ret.result.kind = "Err"
        /\ png = NoPng

====
